---- MODULE Spec2Model ----
(***************************************************************************)
(* A model of two programs of the eden repository:                         *)
(*   - LocalStore (eden/fs/store/LocalStore.cpp): the typed operations the *)
(*     abstract store builds on top of its key-value engine;               *)
(*   - fake_edenfs (eden/integration/helpers/fake_edenfs.cpp): the fake    *)
(*     edenfs daemon used by the integration tests.                        *)
(* Byte strings are sequences of integers 0..255.  Hashes are 20-byte      *)
(* strings and sha-1 is computed bit-exactly.                              *)
(***************************************************************************)
EXTENDS Integers, Sequences, FiniteSets, TLC

\* ------------------------------------------------------------------ bounds

\* Largest total length of a blob's contents, in bytes.
MaxBlobLen == 10
\* Largest number of IOBuf chunks in a blob's chain.
MaxChunks == 2
\* Largest number of entries of a tree.
MaxTreeEntries == 2
\* Number of LocalStore operations one behaviour of Spec starts.
MaxOps == 2
\* Number of requests and signals one behaviour of SpecServer delivers.
MaxEvents == 3

\* keys in one getBatch
MaxKeys == 2
MaxProcs == 3

\* ------------------------------------------------------------ byte strings

RECURSIVE Fill(_, _)
Fill(byte, n) ==
    IF n = 0 THEN <<>>
    ELSE IF n = 1 THEN <<byte>>
    ELSE Fill(byte, n \div 2) \o Fill(byte, n - (n \div 2))

RECURSIVE Decimal(_)
Decimal(n) ==
    IF n < 10 THEN <<48 + n>> ELSE Append(Decimal(n \div 10), 48 + (n % 10))

RECURSIVE BigEndian(_, _)
BigEndian(n, width) ==
    IF width = 0 THEN <<>> ELSE Append(BigEndian(n \div 256, width - 1), n % 256)

RECURSIVE Concat(_)
Concat(slices) ==
    IF slices = <<>> THEN <<>> ELSE Head(slices) \o Concat(Tail(slices))

\* ------------------------------------------------------------------- sha-1
\* A 32-bit word is a pair <<high 16 bits, low 16 bits>>.

RECURSIVE Xor16(_, _)
Xor16(a, b) ==
    IF a = 0 THEN b
    ELSE IF b = 0 THEN a
    ELSE ((a + b) % 2) + 2 * Xor16(a \div 2, b \div 2)

RECURSIVE And16(_, _)
And16(a, b) ==
    IF a = 0 \/ b = 0 THEN 0
    ELSE ((a % 2) * (b % 2)) + 2 * And16(a \div 2, b \div 2)

WXor(a, b) == <<Xor16(a[1], b[1]), Xor16(a[2], b[2])>>
WAnd(a, b) == <<And16(a[1], b[1]), And16(a[2], b[2])>>
WNot(a) == <<65535 - a[1], 65535 - a[2]>>
WOr(a, b) ==
    <<a[1] + b[1] - And16(a[1], b[1]), a[2] + b[2] - And16(a[2], b[2])>>

WAdd(a, b) ==
    LET lo == a[2] + b[2]
        hi == a[1] + b[1] + (lo \div 65536)
    IN <<hi % 65536, lo % 65536>>

Rotl(a, n) ==
    LET w == IF n >= 16 THEN <<a[2], a[1]>> ELSE a
        k == IF n >= 16 THEN n - 16 ELSE n
        p == 2 ^ k
        q == 2 ^ (16 - k)
    IN <<((w[1] * p) % 65536) + (w[2] \div q),
         ((w[2] * p) % 65536) + (w[1] \div q)>>

Sha1Pad(msg) ==
    LET k == (119 - (Len(msg) % 64)) % 64
    IN msg \o <<128>> \o Fill(0, k) \o BigEndian(Len(msg) * 8, 8)

Sha1Word(bytes, i) ==
    <<bytes[i] * 256 + bytes[i + 1], bytes[i + 2] * 256 + bytes[i + 3]>>

\* The message schedule, extended to n words.  (The recursion halves the
\* distance, so that its depth stays small.)
RECURSIVE Sha1Expand(_, _)
Sha1Expand(w, n) ==
    IF Len(w) >= n THEN w
    ELSE IF n = Len(w) + 1
    THEN Append(w, Rotl(WXor(WXor(w[n - 3], w[n - 8]), WXor(w[n - 14], w[n - 16])), 1))
    ELSE Sha1Expand(Sha1Expand(w, (Len(w) + n) \div 2), n)

Sha1F(t, b, c, d) ==
    IF t < 20 THEN WOr(WAnd(b, c), WAnd(WNot(b), d))
    ELSE IF t < 40 THEN WXor(WXor(b, c), d)
    ELSE IF t < 60 THEN WOr(WOr(WAnd(b, c), WAnd(b, d)), WAnd(c, d))
    ELSE WXor(WXor(b, c), d)

Sha1K(t) ==
    IF t < 20 THEN <<23170, 31129>>
    ELSE IF t < 40 THEN <<28377, 60321>>
    ELSE IF t < 60 THEN <<36635, 48348>>
    ELSE <<51810, 49622>>

Sha1Round(w, t, s) ==
    LET tmp == WAdd(WAdd(WAdd(WAdd(Rotl(s[1], 5), Sha1F(t, s[2], s[3], s[4])),
                              s[5]), Sha1K(t)), w[t + 1])
    IN <<tmp, s[1], Rotl(s[2], 30), s[3], s[4]>>

\* Rounds from..to-1 applied to the working state s.
RECURSIVE Sha1Rounds(_, _, _, _)
Sha1Rounds(w, from, to, s) ==
    IF Len(s) = 0 \/ from >= to THEN s
    ELSE IF to = from + 1 THEN Sha1Round(w, from, s)
    ELSE Sha1Rounds(w, (from + to) \div 2, to,
                    Sha1Rounds(w, from, (from + to) \div 2, s))

\* The sixteen words of the block at offset off
Sha1BlockWords(bytes, off) ==
    <<Sha1Word(bytes, off + 1), Sha1Word(bytes, off + 5),
      Sha1Word(bytes, off + 9), Sha1Word(bytes, off + 13),
      Sha1Word(bytes, off + 17), Sha1Word(bytes, off + 21),
      Sha1Word(bytes, off + 25), Sha1Word(bytes, off + 29),
      Sha1Word(bytes, off + 33), Sha1Word(bytes, off + 37),
      Sha1Word(bytes, off + 41), Sha1Word(bytes, off + 45),
      Sha1Word(bytes, off + 49), Sha1Word(bytes, off + 53),
      Sha1Word(bytes, off + 57), Sha1Word(bytes, off + 61)>>

\* The chaining value h plus the working state s of a finished block
Sha1AddState(h, s) ==
    <<WAdd(h[1], s[1]), WAdd(h[2], s[2]), WAdd(h[3], s[3]),
      WAdd(h[4], s[4]), WAdd(h[5], s[5])>>

RECURSIVE Sha1Blocks(_, _, _)
Sha1Blocks(bytes, off, h) ==
    IF off >= Len(bytes) \/ Len(h) = 0 THEN h
    ELSE Sha1Blocks(bytes, off + 64,
             Sha1AddState(h,
                 Sha1Rounds(Sha1Expand(Sha1BlockWords(bytes, off), 80), 0, 80, h)))

Sha1InitialState ==
    <<<<26437, 8961>>, <<61389, 43913>>, <<39098, 56574>>,
      <<4146, 21622>>, <<50130, 57840>>>>

WordBytes(w) == <<w[1] \div 256, w[1] % 256, w[2] \div 256, w[2] % 256>>

Sha1StateBytes(h) ==
    WordBytes(h[1]) \o WordBytes(h[2]) \o WordBytes(h[3]) \o WordBytes(h[4])
        \o WordBytes(h[5])

Sha1Digest(msg) == Sha1StateBytes(Sha1Blocks(Sha1Pad(msg), 0, Sha1InitialState))

\* ------------------------------------------------------------------ hashes

\* Hash::RAW_SIZE
RAW_SIZE == 20

\* Hash(): the zero hash
ZeroHash == Fill(0, RAW_SIZE)

\* The object ids callers pass in.
Ids == {Fill(17, RAW_SIZE), Fill(34, RAW_SIZE)}

\* ------------------------------------------------------------------- blobs
\* A blob's contents are an IOBuf chain: a non-empty sequence of chunks, each
\* a byte string (possibly empty).  The chains of the model cut prefixes of
\* one byte stream, DE AD BE EF repeated, into at most MaxChunks chunks.

RECURSIVE Stream(_)
Stream(n) ==
    IF n = 0 THEN <<>>
    ELSE Append(Stream(n - 1), <<222, 173, 190, 239>>[((n - 1) % 4) + 1])

RECURSIVE SumSeq(_)
SumSeq(lens) == IF lens = <<>> THEN 0 ELSE Head(lens) + SumSeq(Tail(lens))

RECURSIVE MakeChain(_, _)
MakeChain(lens, off) ==
    IF lens = <<>> THEN <<>>
    ELSE <<SubSeq(Stream(MaxBlobLen), off + 1, off + Head(lens))>>
             \o MakeChain(Tail(lens), off + Head(lens))

ChunkLengths ==
    {lens \in UNION {[1..c -> 0..MaxBlobLen] : c \in 1..MaxChunks} :
        SumSeq(lens) <= MaxBlobLen}

Blobs == {MakeChain(lens, 0) : lens \in ChunkLengths}

\* IOBuf::computeChainDataLength
RECURSIVE computeChainDataLength(_)
computeChainDataLength(chain) ==
    IF chain = <<>> THEN 0 ELSE Len(Head(chain)) + computeChainDataLength(Tail(chain))

\* The blobs of the operation sequences of Spec: the empty blob and the
\* 4-byte blob DE AD BE EF, each in one chunk.
SeqBlobs ==
    {chain \in Blobs : Len(chain) = 1 /\ computeChainDataLength(chain) \in {0, 4}}

\* ------------------------------------------------------------------- trees
\* A tree is its stated hash and its entries; an entry is a name, a mode
\* (octal, as git writes it) and the hash of the child.

\* "100644" for a regular file, "40000" for a sub-tree
ModeOf(i) == IF i % 2 = 1 THEN <<49, 48, 48, 54, 52, 52>> ELSE <<52, 48, 48, 48, 48>>

SampleEntry(i) == [name |-> <<96 + i>>, mode |-> ModeOf(i), hash |-> Fill(48 + i, RAW_SIZE)]

RECURSIVE SampleEntries(_)
SampleEntries(n) ==
    IF n = 0 THEN <<>> ELSE Append(SampleEntries(n - 1), SampleEntry(n))

Trees ==
    {[hash |-> h, entries |-> SampleEntries(n)] :
        h \in Ids \cup {ZeroHash}, n \in 0..MaxTreeEntries}

\* GitTreeSerializer::addEntry: "<mode> <name>\0<hash>"
GitTreeSerializer_addEntry(buf, entry) ==
    buf \o entry.mode \o <<32>> \o entry.name \o <<0>> \o entry.hash

RECURSIVE GitTreeSerializer_addEntries(_, _)
GitTreeSerializer_addEntries(buf, entries) ==
    IF entries = <<>> THEN buf
    ELSE GitTreeSerializer_addEntries(
             GitTreeSerializer_addEntry(buf, Head(entries)), Tail(entries))

\* GitTreeSerializer::finalize: the header "tree <len>\0" and the entries
GitTreeSerializer_finalize(body) ==
    <<116, 114, 101, 101, 32>> \o Decimal(Len(body)) \o <<0>> \o body

\* The git-framed form of a blob: "blob <n>\0<bytes>".
GitBlobFraming(bytes) ==
    <<98, 108, 111, 98, 32>> \o Decimal(Len(bytes)) \o <<0>> \o bytes

\* ------------------------------------------------------------- Hash::sha1
\* sha-1 is computed once for every byte string the model hashes.

Sha1Inputs ==
    {Concat(chain) : chain \in Blobs}
        \cup {GitBlobFraming(Concat(chain)) : chain \in Blobs}
        \cup {GitTreeSerializer_finalize(
                  GitTreeSerializer_addEntries(<<>>, SampleEntries(n))) :
              n \in 0..MaxTreeEntries}

Sha1Table == {<<msg, Sha1Digest(msg)>> : msg \in Sha1Inputs}

\* Hash::sha1 of a byte range (of an IOBuf: of its coalesced chain)
Hash_sha1(bytes) ==
    IF bytes \in Sha1Inputs
    THEN (CHOOSE entry \in Sha1Table : entry[1] = bytes)[2]
    ELSE Sha1Digest(bytes)

\* ------------------------------------------------------------- key spaces

KeySpaces ==
    {"BlobFamily", "BlobMetaDataFamily", "TreeFamily", "HgProxyHashFamily",
     "HgCommitToTreeFamily"}

\* kKeySpaceRecords with trees marked ephemeral
kKeySpaceRecords_treeEphemeral ==
    << [keySpace |-> "BlobFamily", persistence |-> "Ephemeral"],
       [keySpace |-> "BlobMetaDataFamily", persistence |-> "Ephemeral"],
       [keySpace |-> "TreeFamily", persistence |-> "Ephemeral"],
       [keySpace |-> "HgProxyHashFamily", persistence |-> "Persistent"],
       [keySpace |-> "HgCommitToTreeFamily", persistence |-> "Ephemeral"] >>

\* kKeySpaceRecords with the commit-to-tree mappings marked persistent
kKeySpaceRecords_commitPersistent ==
    << [keySpace |-> "BlobFamily", persistence |-> "Ephemeral"],
       [keySpace |-> "BlobMetaDataFamily", persistence |-> "Ephemeral"],
       [keySpace |-> "TreeFamily", persistence |-> "Persistent"],
       [keySpace |-> "HgProxyHashFamily", persistence |-> "Persistent"],
       [keySpace |-> "HgCommitToTreeFamily", persistence |-> "Persistent"] >>

\* kKeySpaceRecords with the blob metadata marked persistent
kKeySpaceRecords_metadataPersistent ==
    << [keySpace |-> "BlobFamily", persistence |-> "Ephemeral"],
       [keySpace |-> "BlobMetaDataFamily", persistence |-> "Persistent"],
       [keySpace |-> "TreeFamily", persistence |-> "Persistent"],
       [keySpace |-> "HgProxyHashFamily", persistence |-> "Persistent"],
       [keySpace |-> "HgCommitToTreeFamily", persistence |-> "Ephemeral"] >>

kKeySpaceRecords ==
    << [keySpace |-> "BlobFamily", persistence |-> "Ephemeral"],
       [keySpace |-> "BlobMetaDataFamily", persistence |-> "Ephemeral"],
       [keySpace |-> "TreeFamily", persistence |-> "Persistent"],
       [keySpace |-> "HgProxyHashFamily", persistence |-> "Persistent"],
       [keySpace |-> "HgCommitToTreeFamily", persistence |-> "Ephemeral"] >>

\* ------------------------------------------------------ the storage engine
\* The engine under LocalStore (its pure virtual get, hasKey, put,
\* clearKeySpace, compactKeySpace, beginWrite and WriteBatch::flush): each key
\* space is a map from keys to values.

EmptyMap == [k \in {} |-> <<>>]

MapPut(map, key, value) ==
    [k \in (DOMAIN map) \cup {key} |-> IF k = key THEN value ELSE map[k]]

EmptyStore == [ks \in KeySpaces |-> EmptyMap]

AbsentResult == [valid |-> FALSE, bytes |-> <<>>]

get(db, keySpace, key) ==
    IF key \in DOMAIN db[keySpace]
    THEN [valid |-> TRUE, bytes |-> db[keySpace][key]]
    ELSE AbsentResult

hasKey(db, keySpace, key) == key \in DOMAIN db[keySpace]

put(db, keySpace, key, value) ==
    [db EXCEPT ![keySpace] = MapPut(@, key, value)]

clearKeySpace(db, keySpace) == [db EXCEPT ![keySpace] = EmptyMap]

compactKeySpace(db, keySpace) == db

\* WriteBatch::put with one value, and with a vector of slices
WriteBatch_put(pending, keySpace, key, value) ==
    Append(pending, [keySpace |-> keySpace, key |-> key, value |-> value])

WriteBatch_putSlices(pending, keySpace, key, slices) ==
    WriteBatch_put(pending, keySpace, key, Concat(slices))

\* WriteBatch::flush: every pending put is applied, in one step
RECURSIVE WriteBatch_flush(_, _)
WriteBatch_flush(db, pending) ==
    IF pending = <<>> THEN db
    ELSE WriteBatch_flush(
             put(db, Head(pending).keySpace, Head(pending).key, Head(pending).value),
             Tail(pending))

\* ------------------------------------------------- SerializedBlobMetadata

\* SerializedBlobMetadata::SIZE
SIZE == 8 + RAW_SIZE

\* A uint64_t is four 16-bit limbs, most significant first.
Uint64(n) == <<0, 0, n \div 65536, n % 65536>>

\* folly::Endian::big and the memcpy of the 8 bytes
Uint64Bytes(limbs) ==
    <<limbs[1] \div 256, limbs[1] % 256, limbs[2] \div 256, limbs[2] % 256,
      limbs[3] \div 256, limbs[3] % 256, limbs[4] \div 256, limbs[4] % 256>>

Uint64FromBytes(bytes) ==
    <<bytes[1] * 256 + bytes[2], bytes[3] * 256 + bytes[4],
      bytes[5] * 256 + bytes[6], bytes[7] * 256 + bytes[8]>>

\* serialize without Endian::big on a little-endian host
SerializedBlobMetadata_serialize_hostOrder(contentsHash, blobSize) ==
    LET be == Uint64Bytes(blobSize)
    IN <<be[8], be[7], be[6], be[5], be[4], be[3], be[2], be[1]>> \o contentsHash

\* SerializedBlobMetadata::serialize: the size in 8 bytes, big endian, then
\* the hash.
SerializedBlobMetadata_serialize(contentsHash, blobSize) ==
    Uint64Bytes(blobSize) \o contentsHash

NoMetadata == [kind |-> "none", sha1 |-> <<>>, size |-> Uint64(0), id |-> <<>>]

\* parse that rejects only the records that are too short
SerializedBlobMetadata_parse_tooShortOnly(blobID, storeResult) ==
    IF Len(storeResult.bytes) < SIZE
    THEN [kind |-> "invalid_argument", sha1 |-> <<>>,
          size |-> Uint64(Len(storeResult.bytes)), id |-> blobID]
    ELSE [kind |-> "metadata",
          sha1 |-> SubSeq(storeResult.bytes, 9, SIZE),
          size |-> Uint64FromBytes(SubSeq(storeResult.bytes, 1, 8)),
          id |-> <<>>]

\* SerializedBlobMetadata::parse
SerializedBlobMetadata_parse(blobID, storeResult) ==
    IF Len(storeResult.bytes) # SIZE
    THEN [kind |-> "invalid_argument", sha1 |-> <<>>,
          size |-> Uint64(Len(storeResult.bytes)), id |-> blobID]
    ELSE [kind |-> "metadata",
          sha1 |-> SubSeq(storeResult.bytes, 9, SIZE),
          size |-> Uint64FromBytes(SubSeq(storeResult.bytes, 1, 8)),
          id |-> <<>>]

\* ------------------------------------------------ LocalStore: the put side

\* the prefix without its terminating NUL
BlobPrefix_noNul(length) == <<98, 108, 111, 98, 32>> \o Decimal(length)

\* folly::to<string>("blob ", length) and push_back('\0')
BlobPrefix(length) == <<98, 108, 111, 98, 32>> \o Decimal(length) \o <<0>>

\* peekBytes that does not skip an empty buffer
Cursor_peekBytes_noSkip(contents, pos) ==
    IF pos > Len(contents) THEN 0
    ELSE IF contents[pos] # <<>> THEN pos
    ELSE 0

\* Cursor::peekBytes: the buffer holding the bytes at the cursor, skipping
\* empty buffers; 0 at the end of the chain.
RECURSIVE Cursor_peekBytes(_, _)
Cursor_peekBytes(contents, pos) ==
    IF pos > Len(contents) THEN 0
    ELSE IF contents[pos] # <<>> THEN pos
    ELSE Cursor_peekBytes(contents, pos + 1)

\* The loop of WriteBatch::putBlob that adds every chunk of the chain.
RECURSIVE AddChunks(_, _, _)
AddChunks(contents, pos, bodySlices) ==
    LET at == Cursor_peekBytes(contents, pos)
    IN IF at = 0 THEN bodySlices
       ELSE AddChunks(contents, at + 1, Append(bodySlices, contents[at]))

\* LocalStore::WriteBatch::putBlob: the batch afterwards and the metadata
\* returned.
WriteBatch_putBlob(pending, id, contents) ==
    LET metadata == [sha1 |-> Hash_sha1(Concat(contents)),
                     size |-> Uint64(computeChainDataLength(contents))]
        metadataBytes == SerializedBlobMetadata_serialize(metadata.sha1, metadata.size)
        prefix == BlobPrefix(computeChainDataLength(contents))
        bodySlices == AddChunks(contents, 1, <<prefix>>)
    IN [pending |->
            WriteBatch_put(
                WriteBatch_putSlices(pending, "BlobFamily", id, bodySlices),
                "BlobMetaDataFamily", id, metadataBytes),
        metadata |-> metadata]

\* serializeTree that hashes whatever hash the tree states
serializeTree_alwaysSha1(tree) ==
    LET treeBuf == GitTreeSerializer_finalize(
                       GitTreeSerializer_addEntries(<<>>, tree.entries))
    IN <<Hash_sha1(treeBuf), treeBuf>>

\* LocalStore::serializeTree: the key and the serialized tree
serializeTree(tree) ==
    LET treeBuf == GitTreeSerializer_finalize(
                       GitTreeSerializer_addEntries(<<>>, tree.entries))
        id == IF tree.hash = ZeroHash THEN Hash_sha1(treeBuf) ELSE tree.hash
    IN <<id, treeBuf>>

\* LocalStore::WriteBatch::putTree: the batch afterwards and the id returned.
WriteBatch_putTree(pending, tree) ==
    LET serialized == serializeTree(tree)
    IN [pending |-> WriteBatch_put(pending, "TreeFamily", serialized[1], serialized[2]),
        id |-> serialized[1]]

\* ----------------------------------------------- LocalStore: the read side

RECURSIVE IndexOfNul(_, _)
IndexOfNul(bytes, from) ==
    IF from > Len(bytes) THEN 0
    ELSE IF bytes[from] = 0 THEN from
    ELSE IndexOfNul(bytes, from + 1)

IsDecimal(digits) ==
    /\ digits # <<>>
    /\ \A i \in 1..Len(digits) : digits[i] \in 48..57

RECURSIVE ParseDecimal(_)
ParseDecimal(digits) ==
    IF digits = <<>> THEN 0
    ELSE 10 * ParseDecimal(SubSeq(digits, 1, Len(digits) - 1))
             + (digits[Len(digits)] - 48)

NullBlob == [kind |-> "null", hash |-> <<>>, contents |-> <<>>]

\* deserializeGitBlob: the blob of a well-framed "blob <n>\0<bytes>", an
\* error for any other byte string.
deserializeGitBlob(id, bytes) ==
    LET nul == IndexOfNul(bytes, 6)
        wellFramed ==
            /\ Len(bytes) >= 5
            /\ SubSeq(bytes, 1, 5) = <<98, 108, 111, 98, 32>>
            /\ nul # 0
            /\ IsDecimal(SubSeq(bytes, 6, nul - 1))
            /\ ParseDecimal(SubSeq(bytes, 6, nul - 1)) = Len(bytes) - nul
    IN IF wellFramed
       THEN [kind |-> "blob", hash |-> id, contents |-> SubSeq(bytes, nul + 1, Len(bytes))]
       ELSE [kind |-> "invalid_argument", hash |-> id, contents |-> <<>>]

NullTree == [kind |-> "null", hash |-> <<>>, contents |-> <<>>]

\* deserializeGitTree: the tree of a well-framed "tree <n>\0<entries>" (its
\* entries are left as the bytes they are stored as), an error for any other
\* byte string.
deserializeGitTree(id, bytes) ==
    LET nul == IndexOfNul(bytes, 6)
        wellFramed ==
            /\ Len(bytes) >= 5
            /\ SubSeq(bytes, 1, 5) = <<116, 114, 101, 101, 32>>
            /\ nul # 0
            /\ IsDecimal(SubSeq(bytes, 6, nul - 1))
            /\ ParseDecimal(SubSeq(bytes, 6, nul - 1)) = Len(bytes) - nul
    IN IF wellFramed
       THEN [kind |-> "tree", hash |-> id, contents |-> SubSeq(bytes, nul + 1, Len(bytes))]
       ELSE [kind |-> "invalid_argument", hash |-> id, contents |-> <<>>]

\* The continuations passed to .then(): what each resolves to, and the
\* deserializer it calls on the way.

\* LocalStore::getTree, the lambda
getTree_then(id, data) ==
    IF ~data.valid
    THEN [value |-> NullTree, calls |-> <<>>]
    ELSE [value |-> deserializeGitTree(id, data.bytes),
          calls |-> <<"deserializeGitTree">>]

\* the getBlob lambda without its isValid() test
getBlob_then_noValidTest(id, data) ==
    [value |-> deserializeGitBlob(id, data.bytes), calls |-> <<"deserializeGitBlob">>]

\* LocalStore::getBlob, the lambda
getBlob_then(id, data) ==
    IF ~data.valid
    THEN [value |-> NullBlob, calls |-> <<>>]
    ELSE [value |-> deserializeGitBlob(id, data.bytes),
          calls |-> <<"deserializeGitBlob">>]

\* LocalStore::getBlobMetadata, the lambda
getBlobMetadata_then(id, data) ==
    IF ~data.valid
    THEN [value |-> NoMetadata, calls |-> <<>>]
    ELSE [value |-> SerializedBlobMetadata_parse(id, data),
          calls |-> <<"SerializedBlobMetadata::parse">>]

\* LocalStore::getTree
getTree(db, id) == getTree_then(id, get(db, "TreeFamily", id)).value

\* LocalStore::getBlob
getBlob(db, id) == getBlob_then(id, get(db, "BlobFamily", id)).value

\* LocalStore::getBlobMetadata
getBlobMetadata(db, id) ==
    getBlobMetadata_then(id, get(db, "BlobMetaDataFamily", id)).value

\* getBatch that leaves the absent keys out of its results
RECURSIVE getBatch_skipsAbsent(_, _, _)
getBatch_skipsAbsent(db, keySpace, keys) ==
    IF keys = <<>> THEN <<>>
    ELSE (IF hasKey(db, keySpace, Head(keys))
          THEN <<get(db, keySpace, Head(keys))>> ELSE <<>>)
             \o getBatch_skipsAbsent(db, keySpace, Tail(keys))

\* LocalStore::getBatch, the lambda: results.emplace_back(get(keySpace, key))
\* for each key in turn
RECURSIVE getBatch(_, _, _)
getBatch(db, keySpace, keys) ==
    IF keys = <<>> THEN <<>>
    ELSE <<get(db, keySpace, Head(keys))>> \o getBatch(db, keySpace, Tail(keys))

\* ------------------------------------------------- the reclaim operations
\* Each of the three loops over kKeySpaceRecords makes a sequence of engine
\* calls; other threads may run between two of them.

ClearCall(record) == [fn |-> "clearKeySpace", keySpace |-> record.keySpace]
CompactCall(record) == [fn |-> "compactKeySpace", keySpace |-> record.keySpace]

\* the loop body compacting before it clears
clearCachesAndCompactAll_body_compactFirst(record) ==
    IF record.persistence = "Ephemeral"
    THEN <<CompactCall(record), ClearCall(record)>>
    ELSE <<CompactCall(record)>>

\* the loop body compacting inside the if
clearCachesAndCompactAll_body_ephemeralOnly(record) ==
    IF record.persistence = "Ephemeral"
    THEN <<ClearCall(record), CompactCall(record)>>
    ELSE <<>>

\* The body of the loop of LocalStore::clearCachesAndCompactAll
clearCachesAndCompactAll_body(record) ==
    IF record.persistence = "Ephemeral"
    THEN <<ClearCall(record), CompactCall(record)>>
    ELSE <<CompactCall(record)>>

\* The body of the loop of LocalStore::clearCaches
clearCaches_body(record) ==
    IF record.persistence = "Ephemeral" THEN <<ClearCall(record)>> ELSE <<>>

\* the loop body clearing the ephemeral key spaces as well
compactStorage_body_clearing(record) ==
    IF record.persistence = "Ephemeral"
    THEN <<ClearCall(record), CompactCall(record)>>
    ELSE <<CompactCall(record)>>

\* The body of the loop of LocalStore::compactStorage
compactStorage_body(record) == <<CompactCall(record)>>

\* for (auto ks : kKeySpaceRecords): the engine calls of a whole operation
RECURSIVE ForEachKeySpace(_, _)
ForEachKeySpace(name, i) ==
    IF i > Len(kKeySpaceRecords) THEN <<>>
    ELSE (CASE name = "clearCachesAndCompactAll" ->
                   clearCachesAndCompactAll_body(kKeySpaceRecords[i])
            [] name = "clearCaches" -> clearCaches_body(kKeySpaceRecords[i])
            [] name = "compactStorage" -> compactStorage_body(kKeySpaceRecords[i]))
         \o ForEachKeySpace(name, i + 1)

EngineCall(db, engineCall) ==
    IF engineCall.fn = "clearKeySpace"
    THEN clearKeySpace(db, engineCall.keySpace)
    ELSE compactKeySpace(db, engineCall.keySpace)

RECURSIVE EngineCalls(_, _)
EngineCalls(db, calls) ==
    IF calls = <<>> THEN db
    ELSE EngineCalls(EngineCall(db, Head(calls)), Tail(calls))

\* ------------------------------------------------------------------ state

VARIABLES
    \* LocalStore
    store,          \* the engine's contents: key space -> key -> value
    pc,             \* where the thread calling LocalStore stands
    call,           \* the operation it is in, or was in last, and its arguments
    result,         \* what the last operation returned
    batch,          \* the pending puts of the open WriteBatch
    ip,             \* the engine calls a reclaim operation has made so far
    engineCalls,    \* the calls the operation has made so far, on the calling thread
    store0,         \* the contents when the operation was called
    nOps,           \* operations started
    readResult,     \* what the reader thread saw last
    \* fake_edenfs
    FLAGS_ignoreStop,
    FLAGS_edenDir,
    lockFile,       \* who holds the lock on edenDir/lock
    socketFile,     \* what is at edenDir/socket
    mainPc,         \* where main() stands
    exitCode,
    honorStop_,
    status_,
    terminateLoopSoonCalls,
    startupSuccesses,
    xlog,           \* the last message logged
    lastEvent,      \* the last request or signal delivered
    nEvents,
    signalHandlers, \* the signals the SignalHandler is registered for
    \* several fake_edenfs processes on one edenDir
    instances,      \* each process: where its main() stands, its exit code
    lockHolders     \* the processes whose descriptor holds the lock on edenDir/lock

storeVars ==
    <<store, pc, call, result, batch, ip, engineCalls, store0, nOps, readResult>>

serverVars ==
    <<FLAGS_ignoreStop, FLAGS_edenDir, lockFile, socketFile, mainPc, exitCode,
      honorStop_, status_, terminateLoopSoonCalls, startupSuccesses, xlog,
      lastEvent, nEvents, signalHandlers>>

lockVars == <<instances, lockHolders>>

vars == <<storeVars, serverVars, lockVars>>

\* ---------------------------------------------------- LocalStore: initially

DeadBeef == <<SubSeq(Stream(4), 1, 4)>>

Id1 == Fill(17, RAW_SIZE)
Id2 == Fill(34, RAW_SIZE)

\* The values callers keep in the two hg key spaces.
HgValues == {<<104, 103>>, Fill(51, RAW_SIZE)}

\* A store that earlier runs have filled: a blob with its metadata, a tree
\* under its computed hash, a proxy hash and a commit-to-tree mapping.
SeededStore ==
    LET withBlob == WriteBatch_flush(EmptyStore,
                        WriteBatch_putBlob(<<>>, Id1, DeadBeef).pending)
        withTree == WriteBatch_flush(withBlob,
                        WriteBatch_putTree(<<>>,
                            [hash |-> ZeroHash, entries |-> SampleEntries(1)]).pending)
        withProxy == put(withTree, "HgProxyHashFamily", Id1, <<104, 103>>)
    IN put(withProxy, "HgCommitToTreeFamily", Id2, Fill(51, RAW_SIZE))

InitialStores == {EmptyStore, SeededStore}

NoCall ==
    [name |-> "none", id |-> <<>>, blob |-> <<>>, tree |-> <<>>,
     keySpace |-> "", value |-> <<>>]

NoRead == [op |-> "none", keySpace |-> "", key |-> <<>>, at |-> "", ops |-> 0,
           value |-> <<>>]

StoreInit ==
    /\ store \in InitialStores
    /\ store0 = store
    /\ pc = "idle"
    /\ call = NoCall
    /\ result = <<>>
    /\ batch = <<>>
    /\ ip = 0
    /\ engineCalls = <<>>
    /\ nOps = 0
    /\ readResult = NoRead

\* An operation is called: its arguments and the contents it starts from.
Begin(name, id, blob, tree, keySpace, value) ==
    /\ pc = "idle"
    /\ call' = [name |-> name, id |-> id, blob |-> blob, tree |-> tree,
                keySpace |-> keySpace, value |-> value]
    /\ store0' = store
    /\ nOps' = nOps + 1
    /\ engineCalls' = <<>>
    /\ ip' = 0

\* -------------------------------------------------- LocalStore::putBlob

\* auto batch = beginWrite(...)
putBlob_beginWrite(id, blob) ==
    /\ Begin("putBlob", id, blob, <<>>, "", <<>>)
    /\ pc' = "putBlob_batch"
    /\ batch' = <<>>
    /\ result' = <<>>
    /\ UNCHANGED <<store, readResult, serverVars, lockVars>>

\* batch->putBlob writing the blob through to the engine
putBlob_batchPutBlob_writeThrough ==
    /\ pc = "putBlob_batch"
    /\ LET r == WriteBatch_putBlob(batch, call.id, call.blob)
       IN /\ store' = WriteBatch_flush(store, <<r.pending[1]>>)
          /\ batch' = <<r.pending[2]>>
          /\ result' = r.metadata
    /\ pc' = "putBlob_flush"
    /\ UNCHANGED <<call, ip, engineCalls, store0, nOps, readResult, serverVars, lockVars>>

\* auto result = batch->putBlob(id, blob)
putBlob_batchPutBlob ==
    /\ pc = "putBlob_batch"
    /\ LET r == WriteBatch_putBlob(batch, call.id, call.blob)
       IN /\ batch' = r.pending
          /\ result' = r.metadata
    /\ pc' = "putBlob_flush"
    /\ UNCHANGED <<store, call, ip, engineCalls, store0, nOps, readResult, serverVars, lockVars>>

\* batch->flush(); return result
putBlob_flush ==
    /\ pc = "putBlob_flush"
    /\ store' = WriteBatch_flush(store, batch)
    /\ batch' = <<>>
    /\ pc' = "idle"
    /\ UNCHANGED <<call, result, ip, engineCalls, store0, nOps, readResult, serverVars, lockVars>>

\* ------------------------------------------------------------- putTree

\* LocalStore::putTree
LocalStore_putTree(tree) ==
    /\ Begin("putTree", <<>>, <<>>, tree, "", <<>>)
    /\ LET serialized == serializeTree(tree)
       IN /\ store' = put(store, "TreeFamily", serialized[1], serialized[2])
          /\ result' = serialized[1]
    /\ pc' = "idle"
    /\ UNCHANGED <<batch, readResult, serverVars, lockVars>>

\* A caller's beginWrite(), followed by LocalStore::WriteBatch::putTree
batch_putTree(tree) ==
    /\ Begin("WriteBatch::putTree", <<>>, <<>>, tree, "", <<>>)
    /\ LET r == WriteBatch_putTree(<<>>, tree)
       IN /\ batch' = r.pending
          /\ result' = r.id
    /\ pc' = "batch_flush"
    /\ UNCHANGED <<store, readResult, serverVars, lockVars>>

\* the caller's batch->flush()
batch_flush ==
    /\ pc = "batch_flush"
    /\ store' = WriteBatch_flush(store, batch)
    /\ batch' = <<>>
    /\ pc' = "idle"
    /\ UNCHANGED <<call, result, ip, engineCalls, store0, nOps, readResult, serverVars, lockVars>>

\* LocalStore::put(keySpace, id, value), as the hg importer calls it
LocalStore_put(keySpace, id, value) ==
    /\ Begin("put", id, <<>>, <<>>, keySpace, value)
    /\ store' = put(store, keySpace, id, value)
    /\ result' = <<>>
    /\ pc' = "idle"
    /\ UNCHANGED <<batch, readResult, serverVars, lockVars>>

\* --------------------------------------------------------------- reclaim

\* clearCaches(), clearCachesAndCompactAll() or compactStorage() is called
Reclaim_call(name) ==
    /\ Begin(name, <<>>, <<>>, <<>>, "", <<>>)
    /\ pc' = "reclaim"
    /\ result' = <<>>
    /\ UNCHANGED <<store, batch, readResult, serverVars, lockVars>>

\* The next engine call of the loop; the operation returns after the last.
Reclaim_step(name) ==
    /\ pc = "reclaim"
    /\ call.name = name
    /\ LET calls == ForEachKeySpace(name, 1)
       IN /\ ip < Len(calls)
          /\ store' = EngineCall(store, calls[ip + 1])
          /\ engineCalls' = Append(engineCalls, calls[ip + 1])
          /\ ip' = ip + 1
          /\ pc' = IF ip + 1 = Len(calls) THEN "idle" ELSE "reclaim"
    /\ UNCHANGED <<call, result, batch, store0, nOps, readResult, serverVars, lockVars>>

clearCaches == Reclaim_call("clearCaches")
clearCaches_step == Reclaim_step("clearCaches")
clearCachesAndCompactAll == Reclaim_call("clearCachesAndCompactAll")
clearCachesAndCompactAll_step == Reclaim_step("clearCachesAndCompactAll")
compactStorage == Reclaim_call("compactStorage")
compactStorage_step == Reclaim_step("compactStorage")

\* ------------------------------------------------------ the reader thread

ReaderKeySpaces == {"BlobFamily", "BlobMetaDataFamily"}

Read(op, keySpace, key, value) ==
    /\ readResult' = [op |-> op, keySpace |-> keySpace, key |-> key, at |-> pc,
                      ops |-> nOps, value |-> value]
    /\ UNCHANGED <<store, pc, call, result, batch, ip, engineCalls, store0, nOps,
                   serverVars, lockVars>>

Reader_get(keySpace, key) == Read("get", keySpace, key, get(store, keySpace, key))
Reader_hasKey(keySpace, key) == Read("hasKey", keySpace, key, hasKey(store, keySpace, key))
Reader_getBlob(id) == Read("getBlob", "BlobFamily", id, getBlob(store, id))
Reader_getBlobMetadata(id) ==
    Read("getBlobMetadata", "BlobMetaDataFamily", id, getBlobMetadata(store, id))

\* --------------------------------------- LocalStore: the asynchronous reads

\* The keys read: the ids, and the key of the tree of the filled store.
ReadIds == Ids \cup DOMAIN SeededStore["TreeFamily"]

RECURSIVE KeyLists(_)
KeyLists(n) ==
    IF n = 0 THEN {<<>>}
    ELSE KeyLists(n - 1) \cup {Append(keys, key) : keys \in KeyLists(n - 1), key \in Ids}

\* Sizes a metadata record may state, up to 2^64 - 1.
MetaSizes ==
    {<<0, 0, 0, 0>>, <<0, 0, 0, 4>>, <<0, 1, 0, 0>>, <<258, 772, 1286, 1800>>,
     <<65535, 65535, 65535, 65535>>}

\* What may be found under a key of BlobMetaData: well-formed records, and
\* records that are too short or too long.
MetaRecords ==
    {SerializedBlobMetadata_serialize(Fill(170, RAW_SIZE), size) : size \in MetaSizes}
        \cup {<<>>, Fill(1, SIZE - 1), Fill(1, SIZE + 1)}

\* getFuture, getTree, getBlob or getBlobMetadata is called
Future_call(name, keySpace, id) ==
    /\ Begin(name, id, <<>>, <<>>, keySpace, <<>>)
    /\ pc' = "getFuture"
    /\ result' = <<>>
    /\ UNCHANGED <<store, batch, readResult, serverVars, lockVars>>

LocalStore_getFuture(keySpace, key) == Future_call("getFuture", keySpace, key)
LocalStore_getTree(id) == Future_call("getTree", "TreeFamily", id)
LocalStore_getBlob(id) == Future_call("getBlob", "BlobFamily", id)
LocalStore_getBlobMetadata(id) == Future_call("getBlobMetadata", "BlobMetaDataFamily", id)

\* LocalStore::getFuture: folly::makeFutureWith calls the lambda, and so the
\* engine's synchronous get, on the calling thread, and returns a future that
\* already holds the result.
getFuture_makeFutureWith ==
    /\ pc = "getFuture"
    /\ result' = get(store, call.keySpace, call.id)
    /\ engineCalls' = Append(engineCalls, [fn |-> "get", keySpace |-> call.keySpace])
    /\ pc' = IF call.name = "getFuture" THEN "idle" ELSE "then"
    /\ UNCHANGED <<store, call, batch, ip, store0, nOps, readResult, serverVars, lockVars>>

Then(name, id, data) ==
    CASE name = "getTree" -> getTree_then(id, data)
      [] name = "getBlob" -> getBlob_then(id, data)
      [] name = "getBlobMetadata" -> getBlobMetadata_then(id, data)

ThenCalls(calls, keySpace, made) ==
    IF made = <<>> THEN calls
    ELSE Append(calls, [fn |-> made[1], keySpace |-> keySpace])

\* .then(...) on the finished future: the continuation runs
Future_then ==
    /\ pc = "then"
    /\ result' = Then(call.name, call.id, result).value
    /\ engineCalls' = ThenCalls(engineCalls, call.keySpace,
                                Then(call.name, call.id, result).calls)
    /\ pc' = "idle"
    /\ UNCHANGED <<store, call, batch, ip, store0, nOps, readResult, serverVars, lockVars>>

\* LocalStore::getBatch is called
LocalStore_getBatch(keySpace, keys) ==
    /\ Begin("getBatch", <<>>, <<>>, <<>>, keySpace, keys)
    /\ pc' = "getBatch"
    /\ result' = <<>>
    /\ UNCHANGED <<store, batch, readResult, serverVars, lockVars>>

\* LocalStore::getBatch: makeFutureWith runs the loop over the keys
getBatch_makeFutureWith ==
    /\ pc = "getBatch"
    /\ result' = getBatch(store, call.keySpace, call.value)
    /\ engineCalls' = engineCalls
           \o Fill([fn |-> "get", keySpace |-> call.keySpace], Len(call.value))
    /\ pc' = "idle"
    /\ UNCHANGED <<store, call, batch, ip, store0, nOps, readResult, serverVars, lockVars>>

\* ------------------------------------------------------------ fake_edenfs

OptionNames == {"honor_stop", "status", "other"}
OptionValues == {"true", "false", "off", "starting", "alive", "stopping", "bogus"}

\* folly::tryTo<bool>: the strings it reads as true and as false (lower case)
BoolTrue == {"true", "t", "yes", "y", "on", "1"}
BoolFalse == {"false", "f", "no", "n", "off", "0"}

StopRequests == {"shutdown", "initiateShutdown", "SIGINT", "SIGTERM"}

ServerInit ==
    /\ FLAGS_ignoreStop \in BOOLEAN
    /\ FLAGS_edenDir \in {"", "/eden"}
    /\ lockFile \in {"unlocked", "other"}
    /\ socketFile \in {"absent", "stale", "unremovable"}
    /\ mainPc = "main"
    /\ exitCode = -1
    /\ honorStop_ = TRUE
    /\ status_ = "ALIVE"
    /\ terminateLoopSoonCalls = 0
    /\ startupSuccesses = 0
    /\ xlog = ""
    /\ lastEvent = "none"
    /\ nEvents = 0
    /\ signalHandlers = {}

\* startupLogger.exitUnsuccessfully(1, ...)
exitUnsuccessfully(code) ==
    /\ mainPc' = "exited"
    /\ exitCode' = code

\* if (FLAGS_edenDir.empty()) ...
main_checkEdenDir ==
    /\ mainPc = "main"
    /\ IF FLAGS_edenDir = ""
       THEN exitUnsuccessfully(1)
       ELSE mainPc' = "acquireLock" /\ UNCHANGED exitCode
    /\ UNCHANGED <<FLAGS_ignoreStop, FLAGS_edenDir, signalHandlers, lockFile, socketFile, honorStop_,
                   status_, terminateLoopSoonCalls, startupSuccesses, xlog, lastEvent,
                   nEvents, storeVars, lockVars>>

\* if (!acquireLock(edenDir)) ...
main_acquireLock ==
    /\ mainPc = "acquireLock"
    /\ IF lockFile # "unlocked"
       THEN exitUnsuccessfully(1) /\ UNCHANGED lockFile
       ELSE lockFile' = "self" /\ mainPc' = "unlink" /\ UNCHANGED exitCode
    /\ UNCHANGED <<FLAGS_ignoreStop, FLAGS_edenDir, signalHandlers, socketFile, honorStop_, status_,
                   terminateLoopSoonCalls, startupSuccesses, xlog, lastEvent, nEvents,
                   storeVars, lockVars>>

\* the unlink test without its errno != ENOENT
main_unlink_anyErrno ==
    /\ mainPc = "unlink"
    /\ IF socketFile \in {"unremovable", "absent"}
       THEN exitUnsuccessfully(1) /\ lockFile' = "unlocked" /\ UNCHANGED socketFile
       ELSE socketFile' = "absent" /\ mainPc' = "server"
                /\ UNCHANGED <<exitCode, lockFile>>
    /\ UNCHANGED <<FLAGS_ignoreStop, FLAGS_edenDir, signalHandlers, honorStop_, status_,
                   terminateLoopSoonCalls, startupSuccesses, xlog, lastEvent, nEvents,
                   storeVars, lockVars>>

\* int rc = unlink(thriftSocketPath); if (rc != 0 && errno != ENOENT) ...
\* (the lock goes with the process that exits)
main_unlink ==
    /\ mainPc = "unlink"
    /\ IF socketFile = "unremovable"
       THEN exitUnsuccessfully(1) /\ lockFile' = "unlocked" /\ UNCHANGED socketFile
       ELSE socketFile' = "absent" /\ mainPc' = "server"
                /\ UNCHANGED <<exitCode, lockFile>>
    /\ UNCHANGED <<FLAGS_ignoreStop, FLAGS_edenDir, signalHandlers, honorStop_, status_,
                   terminateLoopSoonCalls, startupSuccesses, xlog, lastEvent, nEvents,
                   storeVars, lockVars>>

\* FakeEdenServer server; if (FLAGS_ignoreStop) server.setHonorStop(false);
main_server ==
    /\ mainPc = "server"
    /\ honorStop_' = IF FLAGS_ignoreStop THEN FALSE ELSE TRUE
    /\ mainPc' = "run"
    /\ UNCHANGED <<FLAGS_ignoreStop, FLAGS_edenDir, signalHandlers, lockFile, socketFile, exitCode,
                   status_, terminateLoopSoonCalls, startupSuccesses, xlog, lastEvent,
                   nEvents, storeVars, lockVars>>

\* run reporting success before anything is set up
FakeEdenServer_run_successFirst ==
    /\ mainPc = "run"
    /\ status_' = "ALIVE"
    /\ signalHandlers' = {"SIGINT", "SIGTERM"}
    /\ startupSuccesses' = startupSuccesses + 1
    /\ mainPc' = "setup"
    /\ UNCHANGED <<FLAGS_ignoreStop, FLAGS_edenDir, lockFile, socketFile, exitCode,
                   honorStop_, terminateLoopSoonCalls, xlog, lastEvent, nEvents,
                   storeVars, lockVars>>

\* make_shared<FakeEdenServiceHandler>(this);
\* SignalHandler signalHandler(eventBase_, this);
FakeEdenServer_run_signalHandler ==
    /\ mainPc = "run"
    /\ status_' = "ALIVE"
    /\ signalHandlers' = {"SIGINT", "SIGTERM"}
    /\ mainPc' = "setup"
    /\ UNCHANGED <<FLAGS_ignoreStop, FLAGS_edenDir, lockFile, socketFile, exitCode,
                   honorStop_, terminateLoopSoonCalls, startupSuccesses, xlog,
                   lastEvent, nEvents, storeVars, lockVars>>

\* server_.setup();
FakeEdenServer_run_setup ==
    /\ mainPc = "setup"
    /\ socketFile' = "listening"
    /\ mainPc' = "success"
    /\ UNCHANGED <<FLAGS_ignoreStop, FLAGS_edenDir, signalHandlers, lockFile, exitCode,
                   honorStop_, status_, terminateLoopSoonCalls, startupSuccesses, xlog,
                   lastEvent, nEvents, storeVars, lockVars>>

\* startupLogger.success(); eventBase_->loopForever();
FakeEdenServer_run_success ==
    /\ mainPc = "success"
    /\ startupSuccesses' = startupSuccesses + 1
    /\ mainPc' = "loopForever"
    /\ UNCHANGED <<FLAGS_ignoreStop, FLAGS_edenDir, signalHandlers, lockFile, socketFile,
                   exitCode, honorStop_, status_, terminateLoopSoonCalls, xlog,
                   lastEvent, nEvents, storeVars, lockVars>>

\* FakeEdenServer::run up to eventBase_->loopForever(), statement by statement
FakeEdenServer_run ==
    \/ FakeEdenServer_run_signalHandler
    \/ FakeEdenServer_run_setup
    \/ FakeEdenServer_run_success

\* A request or a signal is delivered while the event loop runs.
Deliver(event) ==
    /\ mainPc = "loopForever"
    /\ nEvents < MaxEvents
    /\ nEvents' = nEvents + 1
    /\ lastEvent' = event

\* stop that does not look at honorStop_
FakeEdenServer_stop_always ==
    /\ xlog' = "stopping"
    /\ terminateLoopSoonCalls' = terminateLoopSoonCalls + 1

\* FakeEdenServer::stop
FakeEdenServer_stop ==
    IF ~honorStop_
    THEN /\ xlog' = "ignoring stop attempt"
         /\ UNCHANGED terminateLoopSoonCalls
    ELSE /\ xlog' = "stopping"
         /\ terminateLoopSoonCalls' = terminateLoopSoonCalls + 1

\* shutdown that also reports the status stopping
shutdown_setsStopping ==
    /\ Deliver("shutdown")
    /\ FakeEdenServer_stop
    /\ status_' = "STOPPING"
    /\ UNCHANGED <<FLAGS_ignoreStop, FLAGS_edenDir, signalHandlers, lockFile, socketFile, mainPc,
                   exitCode, honorStop_, startupSuccesses, storeVars, lockVars>>

\* FakeEdenServiceHandler::shutdown
shutdown ==
    /\ Deliver("shutdown")
    /\ FakeEdenServer_stop
    /\ UNCHANGED <<FLAGS_ignoreStop, FLAGS_edenDir, signalHandlers, lockFile, socketFile, mainPc,
                   exitCode, honorStop_, status_, startupSuccesses, storeVars, lockVars>>

\* FakeEdenServiceHandler::initiateShutdown
initiateShutdown ==
    /\ Deliver("initiateShutdown")
    /\ FakeEdenServer_stop
    /\ UNCHANGED <<FLAGS_ignoreStop, FLAGS_edenDir, signalHandlers, lockFile, socketFile, mainPc,
                   exitCode, honorStop_, status_, startupSuccesses, storeVars, lockVars>>

\* SignalHandler::signalReceived, for the two signals it registers
signalReceived(sig) ==
    /\ Deliver(sig)
    /\ CASE sig = "SIGINT" -> FakeEdenServer_stop
         [] sig = "SIGTERM" -> FakeEdenServer_stop
         [] OTHER -> xlog' = "received signal" /\ UNCHANGED terminateLoopSoonCalls
    /\ UNCHANGED <<FLAGS_ignoreStop, FLAGS_edenDir, signalHandlers, lockFile, socketFile, mainPc,
                   exitCode, honorStop_, status_, startupSuccesses, storeVars, lockVars>>

\* auto badOption = [&]() {...}: the error is logged and
\* std::invalid_argument is thrown; the request ends with that error.
badOption ==
    /\ Deliver("setOption: std::invalid_argument")
    /\ xlog' = "invalid value"

\* setOption reading every value but "true" as false
setOption_lenient(name, value) ==
    /\ IF name = "honor_stop"
       THEN Deliver("setOption") /\ honorStop_' = (value = "true")
                /\ UNCHANGED <<xlog, status_>>
       ELSE IF name = "status"
       THEN IF value = "starting"
            THEN Deliver("setOption") /\ status_' = "STARTING"
                     /\ UNCHANGED <<xlog, honorStop_>>
            ELSE IF value = "alive"
            THEN Deliver("setOption") /\ status_' = "ALIVE"
                     /\ UNCHANGED <<xlog, honorStop_>>
            ELSE IF value = "stopping"
            THEN Deliver("setOption") /\ status_' = "STOPPING"
                     /\ UNCHANGED <<xlog, honorStop_>>
            ELSE badOption /\ UNCHANGED <<honorStop_, status_>>
       ELSE Deliver("setOption") /\ UNCHANGED <<xlog, honorStop_, status_>>
    /\ UNCHANGED <<FLAGS_ignoreStop, FLAGS_edenDir, signalHandlers, lockFile, socketFile, mainPc,
                   exitCode, terminateLoopSoonCalls, startupSuccesses, storeVars, lockVars>>

\* FakeEdenServiceHandler::setOption
setOption(name, value) ==
    /\ IF name = "honor_stop"
       THEN IF value \notin BoolTrue \cup BoolFalse
            THEN badOption /\ UNCHANGED <<honorStop_, status_>>
            ELSE Deliver("setOption") /\ honorStop_' = (value \in BoolTrue)
                     /\ UNCHANGED <<xlog, status_>>
       ELSE IF name = "status"
       THEN IF value = "starting"
            THEN Deliver("setOption") /\ status_' = "STARTING"
                     /\ UNCHANGED <<xlog, honorStop_>>
            ELSE IF value = "alive"
            THEN Deliver("setOption") /\ status_' = "ALIVE"
                     /\ UNCHANGED <<xlog, honorStop_>>
            ELSE IF value = "stopping"
            THEN Deliver("setOption") /\ status_' = "STOPPING"
                     /\ UNCHANGED <<xlog, honorStop_>>
            ELSE badOption /\ UNCHANGED <<honorStop_, status_>>
       ELSE Deliver("setOption") /\ UNCHANGED <<xlog, honorStop_, status_>>
    /\ UNCHANGED <<FLAGS_ignoreStop, FLAGS_edenDir, signalHandlers, lockFile, socketFile, mainPc,
                   exitCode, terminateLoopSoonCalls, startupSuccesses, storeVars, lockVars>>

\* loopForever() returns once terminateLoopSoon() was called; run() returns
\* and main returns 0.
main_return ==
    /\ mainPc = "loopForever"
    /\ terminateLoopSoonCalls > 0
    /\ mainPc' = "exited"
    /\ exitCode' = 0
    /\ lockFile' = "unlocked"
    /\ UNCHANGED <<FLAGS_ignoreStop, FLAGS_edenDir, signalHandlers, socketFile, honorStop_, status_,
                   terminateLoopSoonCalls, startupSuccesses, xlog, lastEvent, nEvents,
                   storeVars, lockVars>>

\* A runtime failure after start-up: an exception leaves loopForever().
\* Neither FakeEdenServer::run nor main has a handler for it, so it reaches
\* std::terminate and the process is aborted: it dies of SIGABRT (a shell
\* reports 128 + 6); main returns nothing.
main_uncaught ==
    /\ mainPc = "loopForever"
    /\ mainPc' = "exited"
    /\ exitCode' = 128 + 6
    /\ lockFile' = "unlocked"
    /\ xlog' = "terminate called"
    /\ UNCHANGED <<FLAGS_ignoreStop, FLAGS_edenDir, signalHandlers, socketFile, honorStop_, status_,
                   terminateLoopSoonCalls, startupSuccesses, lastEvent, nEvents,
                   storeVars, lockVars>>

\* ------------------------------------- fake_edenfs: several processes
\* Each process runs main() with the same, non-empty --edenDir.  The lock
\* is the flock on edenDir/lock; the socket is the one file edenDir/socket.

Procs == 1 .. MaxProcs

LockInit ==
    /\ instances = [p \in Procs |-> [pc |-> "main", exitCode |-> -1]]
    /\ lockHolders = {}

LockAtRest ==
    /\ instances = [p \in Procs |-> [pc |-> "exited", exitCode |-> 0]]
    /\ lockHolders = {}

\* folly::File::try_lock with every request granted
File_try_lock_always(holders, p) == holders \cup {p}

\* lockFile.try_lock(): flock(LOCK_EX | LOCK_NB) on a descriptor of this
\* process; granted if no other descriptor holds the lock, refused (not
\* waited for) otherwise.
File_try_lock(holders, p) == IF holders \subseteq {p} THEN holders \cup {p} ELSE holders

\* The process ends; the descriptor leaked by lockFile.release() is closed
\* with it and the lock it held is gone.
Instance_exit(p, code) ==
    /\ instances' = [instances EXCEPT ![p] = [pc |-> "exited", exitCode |-> code]]
    /\ lockHolders' = lockHolders \ {p}

Instance_goto(p, label) ==
    instances' = [instances EXCEPT ![p].pc = label]

\* if (FLAGS_edenDir.empty()) ...
instance_checkEdenDir(p) ==
    /\ instances[p].pc = "main"
    /\ IF FLAGS_edenDir = ""
       THEN Instance_exit(p, 1)
       ELSE Instance_goto(p, "acquireLock") /\ UNCHANGED lockHolders
    /\ UNCHANGED <<storeVars, serverVars>>

\* if (!acquireLock(edenDir)) ...
instance_acquireLock(p) ==
    /\ instances[p].pc = "acquireLock"
    /\ IF p \notin File_try_lock(lockHolders, p)
       THEN Instance_exit(p, 1)
       ELSE /\ lockHolders' = File_try_lock(lockHolders, p)
            /\ Instance_goto(p, "unlink")
    /\ UNCHANGED <<storeVars, serverVars>>

\* int rc = unlink(thriftSocketPath); if (rc != 0 && errno != ENOENT) ...
instance_unlink(p) ==
    /\ instances[p].pc = "unlink"
    /\ IF socketFile = "unremovable"
       THEN Instance_exit(p, 1) /\ UNCHANGED socketFile
       ELSE socketFile' = "absent" /\ Instance_goto(p, "server")
                /\ UNCHANGED lockHolders
    /\ UNCHANGED <<FLAGS_ignoreStop, FLAGS_edenDir, signalHandlers, lockFile, mainPc, exitCode,
                   honorStop_, status_, terminateLoopSoonCalls, startupSuccesses,
                   xlog, lastEvent, nEvents, storeVars>>

\* FakeEdenServer server; server.run(...) up to eventBase_->loopForever()
instance_run(p) ==
    /\ instances[p].pc = "server"
    /\ socketFile' = "listening"
    /\ Instance_goto(p, "loopForever")
    /\ UNCHANGED <<FLAGS_ignoreStop, FLAGS_edenDir, signalHandlers, lockFile, mainPc, exitCode,
                   honorStop_, status_, terminateLoopSoonCalls, startupSuccesses,
                   xlog, lastEvent, nEvents, storeVars, lockHolders>>

\* a stop request ends the event loop; run() returns and main returns 0
instance_return(p) ==
    /\ instances[p].pc = "loopForever"
    /\ Instance_exit(p, 0)
    /\ UNCHANGED <<storeVars, serverVars>>

\* --------------------------------------------------------- specifications

\* The part a specification leaves alone is at rest: no daemon is started
\* while the store is exercised, and the store is empty and idle while the
\* daemon runs.
ServerAtRest ==
    /\ ServerInit
    /\ ~FLAGS_ignoreStop
    /\ FLAGS_edenDir = ""
    /\ lockFile = "unlocked"
    /\ socketFile = "absent"

StoreAtRest == StoreInit /\ store = EmptyStore

Init == StoreInit /\ ServerAtRest /\ LockAtRest

InitServer == ServerInit /\ StoreAtRest /\ LockAtRest

InitLock ==
    /\ LockInit
    /\ StoreAtRest
    /\ ServerInit
    /\ ~FLAGS_ignoreStop
    /\ lockFile = "unlocked"

\* Sequences of LocalStore operations of one thread.
Next ==
    \/ \E id \in Ids, blob \in SeqBlobs : nOps < MaxOps /\ putBlob_beginWrite(id, blob)
    \/ putBlob_batchPutBlob
    \/ putBlob_flush
    \/ \E tree \in Trees : nOps < MaxOps /\ LocalStore_putTree(tree)
    \/ \E tree \in Trees : nOps < MaxOps /\ batch_putTree(tree)
    \/ batch_flush
    \/ \E keySpace \in {"HgProxyHashFamily", "HgCommitToTreeFamily"}, id \in Ids,
          value \in HgValues : nOps < MaxOps /\ LocalStore_put(keySpace, id, value)
    \/ nOps < MaxOps /\ clearCaches
    \/ clearCaches_step
    \/ nOps < MaxOps /\ clearCachesAndCompactAll
    \/ clearCachesAndCompactAll_step
    \/ nOps < MaxOps /\ compactStorage
    \/ compactStorage_step

Spec == Init /\ [][Next]_vars

\* One putBlob of any blob, with a reader thread running beside it.
NextBlob ==
    \/ \E id \in Ids, blob \in Blobs : nOps < 1 /\ putBlob_beginWrite(id, blob)
    \/ putBlob_batchPutBlob
    \/ putBlob_flush
    \/ \E keySpace \in ReaderKeySpaces, key \in Ids : Reader_get(keySpace, key)
    \/ \E keySpace \in ReaderKeySpaces, key \in Ids : Reader_hasKey(keySpace, key)
    \/ \E id \in Ids : Reader_getBlob(id)
    \/ \E id \in Ids : Reader_getBlobMetadata(id)

SpecBlob == Init /\ [][NextBlob]_vars

\* Reads of one thread, among puts of metadata records of any length.
NextRead ==
    \/ \E id \in Ids, value \in MetaRecords :
          nOps < MaxOps /\ LocalStore_put("BlobMetaDataFamily", id, value)
    \/ \E keySpace \in KeySpaces, key \in ReadIds :
          nOps < MaxOps /\ LocalStore_getFuture(keySpace, key)
    \/ \E id \in ReadIds : nOps < MaxOps /\ LocalStore_getTree(id)
    \/ \E id \in ReadIds : nOps < MaxOps /\ LocalStore_getBlob(id)
    \/ \E id \in ReadIds : nOps < MaxOps /\ LocalStore_getBlobMetadata(id)
    \/ getFuture_makeFutureWith
    \/ Future_then
    \/ \E keySpace \in KeySpaces, keys \in KeyLists(MaxKeys) :
          nOps < MaxOps /\ LocalStore_getBatch(keySpace, keys)
    \/ getBatch_makeFutureWith

SpecRead == Init /\ [][NextRead]_vars

\* The fake edenfs daemon, from main() on.
NextServer ==
    \/ main_checkEdenDir
    \/ main_acquireLock
    \/ main_unlink
    \/ main_server
    \/ FakeEdenServer_run
    \/ shutdown
    \/ initiateShutdown
    \/ \E sig \in {"SIGINT", "SIGTERM"} : signalReceived(sig)
    \/ \E name \in OptionNames, value \in OptionValues : setOption(name, value)
    \/ main_return
    \/ main_uncaught

SpecServer == InitServer /\ [][NextServer]_vars

\* Processes started on one edenDir, their steps interleaved.
NextLock ==
    \E p \in Procs :
        \/ instance_checkEdenDir(p)
        \/ instance_acquireLock(p)
        \/ instance_unlink(p)
        \/ instance_run(p)
        \/ instance_return(p)

SpecLock == InitLock /\ [][NextLock]_vars

\* ----------------------------------------------------------------- claims

Returned(name) == pc = "idle" /\ call.name = name

EphemeralKeySpaces == {"BlobFamily", "BlobMetaDataFamily", "HgCommitToTreeFamily"}
PersistentKeySpaces == {"TreeFamily", "HgProxyHashFamily"}

KeysOf(db, keySpace) == (DOMAIN db[keySpace]) \cup Ids

SameReads(keySpace) ==
    \A k \in KeysOf(store, keySpace) \cup KeysOf(store0, keySpace) :
        /\ get(store, keySpace, k) = get(store0, keySpace, k)
        /\ hasKey(store, keySpace, k) = hasKey(store0, keySpace, k)

Erased(keySpace) ==
    \A k \in KeysOf(store, keySpace) \cup KeysOf(store0, keySpace) :
        ~hasKey(store, keySpace, k)

StopStep == nEvents' = nEvents + 1 /\ lastEvent' \in StopRequests

C2_ClearCaches ==
    Returned("clearCaches") =>
        /\ \A keySpace \in EphemeralKeySpaces : Erased(keySpace)
        /\ \A keySpace \in PersistentKeySpaces : SameReads(keySpace)

C2_Witness ==
    /\ Returned("clearCaches")
    /\ \A keySpace \in KeySpaces : DOMAIN store0[keySpace] # {}

\* C3 as stated: after clearCaches() or clearCachesAndCompactAll(), every key
\* of HgProxyHash and of HgCommitToTree reads as before.
C3_Original ==
    Returned("clearCaches") \/ Returned("clearCachesAndCompactAll") =>
        /\ SameReads("HgProxyHashFamily")
        /\ SameReads("HgCommitToTreeFamily")

\* C3, amended: after clearCaches() or clearCachesAndCompactAll(), every key
\* of HgProxyHash reads as before, and every key of HgCommitToTree is gone.
C3_Amended ==
    Returned("clearCaches") \/ Returned("clearCachesAndCompactAll") =>
        /\ SameReads("HgProxyHashFamily")
        /\ Erased("HgCommitToTreeFamily")

C3_Witness ==
    /\ Returned("clearCachesAndCompactAll")
    /\ DOMAIN store0["HgProxyHashFamily"] # {}
    /\ DOMAIN store0["HgCommitToTreeFamily"] # {}

\* What a read of the key of the running putBlob returns from contents db.
ReadOf(db, op, keySpace, key) ==
    IF op = "get" THEN get(db, keySpace, key) ELSE hasKey(db, keySpace, key)

BeforeFlush(at) == at \in {"putBlob_batch", "putBlob_flush"}

\* C4: while putBlob(id, blob) runs beside a reader, nothing it writes is
\* visible before flush(): up to the flush the store holds what it held when
\* putBlob was called, and a get or hasKey made before the flush returns
\* what it would have returned then.  From the flush on, and so once putBlob
\* has returned, Blob[id] and BlobMetadata[id] are both present, and a read
\* made after the flush returns the entry of the finished putBlob.  In no
\* state is one of the two entries written and the other not.
C4_AtomicPutBlob ==
    call.name = "putBlob" =>
        /\ BeforeFlush(pc) => store = store0
        /\ pc = "idle" =>
              /\ hasKey(store, "BlobFamily", call.id)
              /\ hasKey(store, "BlobMetaDataFamily", call.id)
        /\ hasKey(store, "BlobFamily", call.id)
              <=> hasKey(store, "BlobMetaDataFamily", call.id)
        /\ (readResult.op \in {"get", "hasKey"} /\ readResult.ops = nOps)
              => readResult.value =
                     ReadOf(IF BeforeFlush(readResult.at) THEN store0 ELSE store,
                            readResult.op, readResult.keySpace, readResult.key)

\* putBlob has returned; a reader that asked for the blob's key before the
\* flush was told it is not there.
C4_Witness ==
    /\ Returned("putBlob")
    /\ readResult.op = "hasKey"
    /\ readResult.at = "putBlob_flush"
    /\ readResult.key = call.id
    /\ readResult.value = FALSE
    /\ hasKey(store, readResult.keySpace, call.id)

TreeBytes(tree) ==
    GitTreeSerializer_finalize(GitTreeSerializer_addEntries(<<>>, tree.entries))

TreeKey(tree) ==
    IF tree.hash # ZeroHash THEN tree.hash ELSE Hash_sha1(TreeBytes(tree))

\* C5: putTree(tree) returns the tree's stated hash when that is not the zero
\* hash and the sha-1 of the serialized tree when it is, and when it has
\* returned, Tree[returned key] holds the serialized tree.
\* WriteBatch::putTree returns the same key and puts the serialized tree
\* under it in the batch; the flush stores it.
C5_PutTreeKey ==
    /\ Returned("putTree") =>
          /\ result = TreeKey(call.tree)
          /\ get(store, "TreeFamily", result) =
                 [valid |-> TRUE, bytes |-> TreeBytes(call.tree)]
    /\ call.name = "WriteBatch::putTree" =>
          /\ result = TreeKey(call.tree)
          /\ pc = "batch_flush" =>
                 batch = <<[keySpace |-> "TreeFamily", key |-> result,
                            value |-> TreeBytes(call.tree)]>>
          /\ pc = "idle" =>
                 get(store, "TreeFamily", result) =
                     [valid |-> TRUE, bytes |-> TreeBytes(call.tree)]

\* putTree of a tree with entries and the zero hash has returned.
C5_Witness ==
    /\ Returned("putTree")
    /\ call.tree.hash = ZeroHash
    /\ call.tree.entries # <<>>
    /\ result # ZeroHash
    /\ hasKey(store, "TreeFamily", result)

\* C6: once putBlob(id, b) has returned, getBlob(id) yields a blob whose
\* contents are the bytes of b's chunks, in order; getBlobMetadata(id) yields
\* (sha-1 of those bytes, their number); putBlob returned this same metadata;
\* and the reader thread that calls getBlob or getBlobMetadata then gets
\* these values.
C6_BlobRoundTrip ==
    Returned("putBlob") =>
        LET bytes == Concat(call.blob)
            blob == [kind |-> "blob", hash |-> call.id, contents |-> bytes]
            metadata == [kind |-> "metadata", sha1 |-> Hash_sha1(bytes),
                         size |-> <<0, 0, 0, Len(bytes)>>, id |-> <<>>]
        IN /\ getBlob(store, call.id) = blob
           /\ getBlobMetadata(store, call.id) = metadata
           /\ result = [sha1 |-> metadata.sha1, size |-> metadata.size]
           /\ (readResult.at = "idle" /\ readResult.ops = nOps
                   /\ readResult.key = call.id)
                 => /\ readResult.op = "getBlob" => readResult.value = blob
                    /\ readResult.op = "getBlobMetadata" => readResult.value = metadata

\* A blob of two non-empty chunks was put and read back.
C6_Witness ==
    /\ Returned("putBlob")
    /\ Len(call.blob) = 2
    /\ call.blob[1] # <<>>
    /\ call.blob[2] # <<>>
    /\ readResult.op = "getBlob"
    /\ readResult.at = "idle"
    /\ readResult.ops = nOps
    /\ readResult.key = call.id

Sha1OfDeadBeef ==
    <<215, 143, 139, 185, 146, 165, 106, 89, 127, 108,
      122, 31, 185, 24, 187, 120, 39, 19, 103, 235>>

Sha1OfFramedDeadBeef ==
    <<125, 23, 75, 19, 234, 105, 227, 132, 187, 194,
      106, 240, 255, 17, 25, 170, 252, 154, 191, 183>>

\* C7 as stated: the record stored in BlobMetadata for a blob of n bytes is
\* the 8-byte big-endian n followed by the sha-1 of "blob <n>\0<bytes>".
C7_Original ==
    Returned("putBlob") =>
        LET bytes == Concat(call.blob)
        IN get(store, "BlobMetaDataFamily", call.id).bytes =
               <<0, 0, 0, 0, 0, 0, 0, Len(bytes)>> \o Hash_sha1(GitBlobFraming(bytes))

\* C7, amended: the record stored in BlobMetadata for a blob of n bytes is 28
\* bytes: the 8-byte big-endian n followed by the sha-1 of the blob's bytes
\* themselves, without the git framing (for DE AD BE EF:
\* 00 00 00 00 00 00 00 04 and then sha1("\xDE\xAD\xBE\xEF")).
C7_Amended ==
    Returned("putBlob") =>
        LET bytes == Concat(call.blob)
            record == get(store, "BlobMetaDataFamily", call.id)
        IN /\ record.valid
           /\ Len(record.bytes) = 28
           /\ record.bytes = <<0, 0, 0, 0, 0, 0, 0, Len(bytes)>> \o Hash_sha1(bytes)
           /\ bytes = <<222, 173, 190, 239>> =>
                 /\ record.bytes = <<0, 0, 0, 0, 0, 0, 0, 4>> \o Sha1OfDeadBeef
                 /\ Hash_sha1(GitBlobFraming(bytes)) = Sha1OfFramedDeadBeef

\* The blob DE AD BE EF was put into a store that did not hold its id.
C7_Witness ==
    /\ Returned("putBlob")
    /\ Concat(call.blob) = <<222, 173, 190, 239>>
    /\ ~hasKey(store0, "BlobMetaDataFamily", call.id)
    /\ hasKey(store, "BlobMetaDataFamily", call.id)

\* C8: once putBlob(id, blob) has returned, Blob[id] is "blob ", the decimal
\* length n, one NUL and the bytes of the chunks in order: 5 + digits(n) + 1
\* + n bytes, 11 for DE AD BE EF.  The entry is under the id passed: no other
\* key of Blob appears or changes.
C8_FramedBody ==
    Returned("putBlob") =>
        LET bytes == Concat(call.blob)
            n == Len(bytes)
            digits == IF n < 10 THEN 1 ELSE IF n < 100 THEN 2 ELSE 3
            body == get(store, "BlobFamily", call.id)
        IN /\ body.valid
           /\ body.bytes = <<98, 108, 111, 98, 32>> \o Decimal(n) \o <<0>> \o bytes
           /\ Len(body.bytes) = 5 + digits + 1 + n
           /\ n = 10 => SubSeq(body.bytes, 1, 8) = <<98, 108, 111, 98, 32, 49, 48, 0>>
           /\ bytes = <<222, 173, 190, 239>> =>
                 body.bytes = <<98, 108, 111, 98, 32, 52, 0, 222, 173, 190, 239>>
           /\ DOMAIN store["BlobFamily"] = DOMAIN store0["BlobFamily"] \cup {call.id}
           /\ \A k \in DOMAIN store0["BlobFamily"] \ {call.id} :
                 store["BlobFamily"][k] = store0["BlobFamily"][k]

\* A blob of ten bytes in two chunks, the first of them empty, was put.
C8_Witness ==
    /\ Returned("putBlob")
    /\ Len(call.blob) = 2
    /\ call.blob[1] = <<>>
    /\ Len(call.blob[2]) = 10
    /\ Len(store["BlobFamily"][call.id]) = 18

IsCall(engineCall, fn, keySpace) ==
    engineCall.fn = fn /\ engineCall.keySpace = keySpace

CountCalls(fn, keySpace) ==
    Cardinality({i \in 1..Len(engineCalls) : IsCall(engineCalls[i], fn, keySpace)})

\* C9 as stated: clearCachesAndCompactAll() requests no compaction before
\* every ephemeral key space has been cleared.
C9_Original ==
    call.name = "clearCachesAndCompactAll" =>
        \A i \in 1..Len(engineCalls) :
            engineCalls[i].fn = "compactKeySpace" =>
                \A keySpace \in EphemeralKeySpaces :
                    \E j \in 1..(i - 1) :
                        IsCall(engineCalls[j], "clearKeySpace", keySpace)

\* C9, amended: clearCachesAndCompactAll() takes the key spaces one at a
\* time, in table order: it clears a key space if it is ephemeral and
\* requests its compaction right after.  The compaction of an ephemeral key
\* space is requested only after that key space has been cleared; when the
\* operation returns every ephemeral key space has been cleared once, and the
\* calls made are clear Blob, compact Blob, clear BlobMetadata, compact
\* BlobMetadata, compact Tree, compact HgProxyHash, clear HgCommitToTree,
\* compact HgCommitToTree.
C9_Amended ==
    call.name = "clearCachesAndCompactAll" =>
        /\ \A i \in 1..Len(engineCalls) :
              (engineCalls[i].fn = "compactKeySpace"
                   /\ engineCalls[i].keySpace \in EphemeralKeySpaces)
                 => /\ i > 1
                    /\ IsCall(engineCalls[i - 1], "clearKeySpace",
                              engineCalls[i].keySpace)
        /\ pc = "idle" =>
              /\ engineCalls =
                     << [fn |-> "clearKeySpace", keySpace |-> "BlobFamily"],
                        [fn |-> "compactKeySpace", keySpace |-> "BlobFamily"],
                        [fn |-> "clearKeySpace", keySpace |-> "BlobMetaDataFamily"],
                        [fn |-> "compactKeySpace", keySpace |-> "BlobMetaDataFamily"],
                        [fn |-> "compactKeySpace", keySpace |-> "TreeFamily"],
                        [fn |-> "compactKeySpace", keySpace |-> "HgProxyHashFamily"],
                        [fn |-> "clearKeySpace", keySpace |-> "HgCommitToTreeFamily"],
                        [fn |-> "compactKeySpace", keySpace |-> "HgCommitToTreeFamily"] >>
              /\ \A keySpace \in EphemeralKeySpaces :
                    CountCalls("clearKeySpace", keySpace) = 1

\* The operation is under way on a filled store: Blob has been compacted and
\* BlobMetadata still holds its entries.
C9_Witness ==
    /\ call.name = "clearCachesAndCompactAll"
    /\ pc = "reclaim"
    /\ CountCalls("compactKeySpace", "BlobFamily") = 1
    /\ DOMAIN store["BlobFamily"] = {}
    /\ DOMAIN store["BlobMetaDataFamily"] # {}

\* C10: when clearCachesAndCompactAll() returns it has requested compaction
\* exactly once on each of the five key spaces, has cleared Blob,
\* BlobMetadata and HgCommitToTree once each and no other key space, and the
\* store holds what clearCaches() leaves when called on the same contents.
C10_CompactAll ==
    Returned("clearCachesAndCompactAll") =>
        /\ \A keySpace \in KeySpaces :
              /\ CountCalls("compactKeySpace", keySpace) = 1
              /\ CountCalls("clearKeySpace", keySpace) =
                     IF keySpace \in EphemeralKeySpaces THEN 1 ELSE 0
        /\ Len(engineCalls) = 8
        /\ store = EngineCalls(store0, ForEachKeySpace("clearCaches", 1))

\* It has returned on a store that held entries in every key space.
C10_Witness ==
    /\ Returned("clearCachesAndCompactAll")
    /\ store0 = SeededStore
    /\ store # store0
    /\ Len(engineCalls) = 8


\* C11: compactStorage() requests compaction once on each of the five key
\* spaces and clears none; while it runs and when it has returned, get and
\* hasKey return for every key space and key what they returned when it was
\* called.
C11_CompactStorage ==
    call.name = "compactStorage" =>
        /\ \A keySpace \in KeySpaces :
              /\ SameReads(keySpace)
              /\ CountCalls("clearKeySpace", keySpace) = 0
              /\ CountCalls("compactKeySpace", keySpace) <= 1
              /\ pc = "idle" => CountCalls("compactKeySpace", keySpace) = 1
        /\ store = store0

\* compactStorage() has returned on a store with entries in every key space.
C11_Witness ==
    /\ Returned("compactStorage")
    /\ Len(engineCalls) = 5
    /\ \A keySpace \in KeySpaces : DOMAIN store[keySpace] # {}


KeyAbsent == ~hasKey(store, call.keySpace, call.id)

OnlyGet == <<[fn |-> "get", keySpace |-> call.keySpace]>>

\* C12: a read of a key that is absent from its key space raises no error:
\* get returns an absent StoreResult, getFuture resolves to it, getTree and
\* getBlob resolve to null and getBlobMetadata to none; the operation has
\* called the engine's get and nothing else, so no deserializer has run.
C12_MissingKey ==
    /\ \A keySpace \in KeySpaces, key \in ReadIds :
          ~hasKey(store, keySpace, key)
              => get(store, keySpace, key) = [valid |-> FALSE, bytes |-> <<>>]
    /\ (pc = "then" /\ KeyAbsent) => ~result.valid
    /\ (Returned("getFuture") /\ KeyAbsent)
          => result = [valid |-> FALSE, bytes |-> <<>>] /\ engineCalls = OnlyGet
    /\ (Returned("getTree") /\ KeyAbsent)
          => result.kind = "null" /\ engineCalls = OnlyGet
    /\ (Returned("getBlob") /\ KeyAbsent)
          => result.kind = "null" /\ engineCalls = OnlyGet
    /\ (Returned("getBlobMetadata") /\ KeyAbsent)
          => result.kind = "none" /\ engineCalls = OnlyGet

\* getBlob of a key that Blob does not hold has resolved to null, on a store
\* that holds other blobs.
C12_Witness ==
    /\ Returned("getBlob")
    /\ KeyAbsent
    /\ result.kind = "null"
    /\ DOMAIN store["BlobFamily"] # {}

\* C13: getBlobMetadata(id) on a stored record fails with an
\* invalid-argument error that carries id when the record is not 28 bytes
\* long, and never fails on a record of 28 bytes: it yields the hash in bytes
\* 8..27 and the size that bytes 0..7 state, most significant byte first, so
\* the serialization of any (hash, size), size up to 2^64 - 1, parses back to
\* (hash, size).  The store is as it was before the call, error or not.
C13_ParseMetadata ==
    Returned("getBlobMetadata") =>
        LET data == get(store, "BlobMetaDataFamily", call.id)
        IN /\ store = store0
           /\ (data.valid /\ Len(data.bytes) # 28)
                 => /\ result.kind = "invalid_argument"
                    /\ result.id = call.id
           /\ (data.valid /\ Len(data.bytes) = 28)
                 => /\ result.kind = "metadata"
                    /\ result.sha1 = SubSeq(data.bytes, 9, 28)
                    /\ \A i \in 1..4 :
                          result.size[i] =
                              256 * data.bytes[2 * i - 1] + data.bytes[2 * i]
           /\ \A size \in MetaSizes :
                 data.bytes = SerializedBlobMetadata_serialize(Fill(170, 20), size)
                    => result.sha1 = Fill(170, 20) /\ result.size = size

\* getBlobMetadata has failed on a record of 29 bytes.
C13_Witness ==
    /\ Returned("getBlobMetadata")
    /\ Len(get(store, "BlobMetaDataFamily", call.id).bytes) = 29
    /\ result.kind = "invalid_argument"
    /\ result.id = call.id

\* getBlobMetadata has read back a record stating the size 2^64 - 1.
C13_RoundTripReached ==
    /\ Returned("getBlobMetadata")
    /\ result.kind = "metadata"
    /\ result.size = <<65535, 65535, 65535, 65535>>

\* C14: getBatch(keySpace, keys) resolves to one result per key, in the order
\* of the keys: result[i] is what get(keySpace, keys[i]) returns, an absent
\* result where the key is absent; the same result twice for a key given
\* twice, the empty vector for no keys.
C14_GetBatch ==
    Returned("getBatch") =>
        LET keys == call.value
        IN /\ Len(result) = Len(keys)
           /\ \A i \in 1..Len(keys) :
                 /\ result[i] = get(store, call.keySpace, keys[i])
                 /\ ~hasKey(store, call.keySpace, keys[i])
                       => result[i] = [valid |-> FALSE, bytes |-> <<>>]
                 /\ hasKey(store, call.keySpace, keys[i])
                       => result[i] = [valid |-> TRUE,
                                       bytes |-> store[call.keySpace][keys[i]]]
           /\ keys = <<>> => result = <<>>

\* getBatch of a key that is present and then of one that is absent
C14_Witness ==
    /\ Returned("getBatch")
    /\ Len(call.value) = 2
    /\ hasKey(store, call.keySpace, call.value[1])
    /\ ~hasKey(store, call.keySpace, call.value[2])
    /\ Len(result) = 2

\* getBatch of the same key twice
C14_DuplicateReached ==
    /\ Returned("getBatch")
    /\ Len(call.value) = 2
    /\ call.value[1] = call.value[2]
    /\ result[1].valid

\* C15: getFuture(keySpace, key) hands the future back to the thread that
\* called it without that thread having run the engine's synchronous get:
\* when getFuture returns, the calling thread has made no engine call.
C15_NonBlocking ==
    Returned("getFuture") => engineCalls = <<>>


\* The three initialisation failures of main; each is fixed when the process
\* starts and lasts as long as the process does.
NoEdenDir == FLAGS_edenDir = ""
LockHeldElsewhere == lockFile = "other"
SocketUnremovable == socketFile = "unremovable"

\* C16: a process started without an Eden directory, or with the lock held
\* by another process, or with a stale socket it cannot remove, never gets
\* past the failing test, never reports a successful start-up and, once it
\* has exited, has exit code 1; exit code 1 arises in no other way, so a
\* socket that is merely absent (ENOENT) does not stop the start-up.
C16_StartupFailure ==
    /\ NoEdenDir => mainPc \in {"main", "exited"}
    /\ LockHeldElsewhere => mainPc \in {"main", "acquireLock", "exited"}
    /\ SocketUnremovable => mainPc \in {"main", "acquireLock", "unlink", "exited"}
    /\ (NoEdenDir \/ LockHeldElsewhere \/ SocketUnremovable) =>
           /\ startupSuccesses = 0
           /\ mainPc = "exited" => exitCode = 1
    /\ exitCode = 1 =>
           /\ mainPc = "exited"
           /\ NoEdenDir \/ LockHeldElsewhere \/ SocketUnremovable
    /\ (mainPc = "server" /\ socketFile = "absent") => exitCode # 1

\* the process took the lock, could not remove the stale socket and exited
C16_Witness ==
    /\ mainPc = "exited"
    /\ exitCode = 1
    /\ ~NoEdenDir
    /\ ~LockHeldElsewhere
    /\ SocketUnremovable
    /\ startupSuccesses = 0

C16_LockFailureReached ==
    mainPc = "exited" /\ exitCode = 1 /\ ~NoEdenDir /\ LockHeldElsewhere


RuntimeFailure == startupSuccesses > 0 /\ xlog = "terminate called"

\* C17: a process that has exited after a successful start-up has exit
\* code 0 when its event loop was ended by an honoured stop request and
\* exit code 2 when a runtime failure occurred.
C17_ExitCodes ==
    (mainPc = "exited" /\ startupSuccesses > 0) =>
        /\ exitCode \in {0, 2}
        /\ exitCode = 0 <=> (terminateLoopSoonCalls > 0 /\ ~RuntimeFailure)
        /\ exitCode = 2 <=> RuntimeFailure

\* what the code does keep of it: exit code 0 after an honoured stop
C17_StopCode ==
    (mainPc = "exited" /\ startupSuccesses > 0 /\ ~RuntimeFailure) =>
        /\ exitCode = 0
        /\ terminateLoopSoonCalls > 0

C17_FailureReached == mainPc = "exited" /\ RuntimeFailure /\ exitCode # 2


StatusValues == {"starting", "alive", "stopping"}

StatusNamed(value) ==
    CASE value = "starting" -> "STARTING"
      [] value = "alive" -> "ALIVE"
      [] value = "stopping" -> "STOPPING"

\* C18: the reported status is always one of STARTING, ALIVE and STOPPING,
\* it is ALIVE when the event loop starts, setOption("status", v) with v one
\* of "starting", "alive", "stopping" makes it the status so named, and no
\* other step (stop request, signal, other option, exit) changes it.
C18_Status ==
    /\ [](status_ \in {"STARTING", "ALIVE", "STOPPING"})
    /\ []((mainPc = "loopForever" /\ nEvents = 0) => status_ = "ALIVE")
    /\ [][\A value \in StatusValues :
              setOption("status", value) => status_' = StatusNamed(value)]_vars
    /\ [][status_' # status_ =>
              \E value \in StatusValues : setOption("status", value)]_vars

\* the status was set to stopping and a stop request after it left it there
C18_Witness ==
    /\ mainPc = "loopForever"
    /\ status_ = "STOPPING"
    /\ lastEvent \in StopRequests
    /\ terminateLoopSoonCalls > 0

C18_StartingReached == mainPc = "loopForever" /\ status_ = "STARTING"


InvalidValue(name, value) ==
    \/ name = "status" /\ value \notin StatusValues
    \/ name = "honor_stop" /\ value \notin BoolTrue \cup BoolFalse

\* C19: a setOption whose value is invalid for its option (a status outside
\* starting/alive/stopping, a honor_stop that is not a boolean) ends with an
\* invalid-argument error and leaves the status, honor_stop and the rest of
\* the server as they were; a setOption with an unrecognised name ends
\* without error and changes nothing either.
C19_InvalidOption ==
    [][\A name \in OptionNames, value \in OptionValues :
           setOption(name, value) =>
               /\ InvalidValue(name, value) =>
                      /\ lastEvent' = "setOption: std::invalid_argument"
                      /\ UNCHANGED <<status_, honorStop_, terminateLoopSoonCalls,
                                     mainPc, exitCode, socketFile, lockFile>>
               /\ name \notin {"honor_stop", "status"} =>
                      /\ lastEvent' = "setOption"
                      /\ UNCHANGED <<status_, honorStop_, terminateLoopSoonCalls,
                                     mainPc, exitCode, socketFile, lockFile, xlog>>
               /\ ~InvalidValue(name, value) => lastEvent' = "setOption"]_vars

\* an invalid value was refused while both settings had been changed before
C19_Witness ==
    /\ lastEvent = "setOption: std::invalid_argument"
    /\ xlog = "invalid value"
    /\ status_ = "STOPPING"
    /\ ~honorStop_

C19_UnknownNameReached ==
    /\ lastEvent = "setOption"
    /\ nEvents = 1
    /\ status_ = "ALIVE"
    /\ honorStop_ = ~FLAGS_ignoreStop
    /\ xlog = ""


HoldsLock(p) == p \in lockHolders

Stepped(p) == instances'[p] # instances[p]

\* C20: among the processes started on one edenDir at most one at a time
\* holds the lock; a process that is about to remove the socket, has removed
\* it or runs its server holds the lock, and every step that changes the
\* socket is taken by the holder; a holder loses the lock only by exiting;
\* and a process that tries the lock while another one holds it exits with
\* code 1 without starting up.
C20_SingleInstance ==
    /\ [](Cardinality(lockHolders) <= 1)
    /\ [](\A p \in Procs :
              /\ instances[p].pc \in {"unlink", "server", "loopForever"} => HoldsLock(p)
              /\ HoldsLock(p) => instances[p].pc # "exited")
    /\ [](Cardinality({p \in Procs : instances[p].pc = "loopForever"}) <= 1)
    /\ [][\A p \in Procs :
              (Stepped(p) /\ socketFile' # socketFile) => HoldsLock(p)]_vars
    /\ [][\A p \in Procs :
              (HoldsLock(p) /\ p \notin lockHolders') =>
                  instances'[p].pc = "exited"]_vars
    /\ [][\A p, q \in Procs :
              (p # q /\ HoldsLock(p) /\ instances[q].pc = "acquireLock" /\ Stepped(q)) =>
                  /\ instances'[q] = [pc |-> "exited", exitCode |-> 1]
                  /\ HoldsLock(p)'
                  /\ UNCHANGED socketFile]_vars

\* one process serves while a second one, started meanwhile, has failed
C20_Witness ==
    \E p, q \in Procs :
        /\ p # q
        /\ instances[p].pc = "loopForever"
        /\ HoldsLock(p)
        /\ socketFile = "listening"
        /\ instances[q] = [pc |-> "exited", exitCode |-> 1]

\* the lock passes on once its holder has exited
C20_HandoverReached ==
    \E p, q \in Procs :
        /\ instances[p] = [pc |-> "exited", exitCode |-> 0]
        /\ instances[q].pc = "loopForever"
        /\ HoldsLock(q)


BothSignals == {"SIGINT", "SIGTERM"}

SuccessReported == startupSuccesses' # startupSuccesses

\* C21: start-up success is reported at most once, and the steps of the
\* start-up come in this order: the lock is taken, then the socket path is
\* cleared, then the handlers for SIGINT and SIGTERM are registered, then
\* the thrift server is set up, then success is reported; the event loop
\* runs, and requests and signals are delivered, only after that report.
C21_StartupOrder ==
    /\ [](startupSuccesses <= 1)
    /\ [](mainPc = "loopForever" => startupSuccesses = 1)
    /\ [](nEvents > 0 => startupSuccesses = 1)
    /\ [][(mainPc = "unlink" /\ mainPc' = "server") =>
              /\ lockFile = "self"
              /\ socketFile' = "absent"
              /\ signalHandlers = {}
              /\ startupSuccesses = 0]_vars
    /\ [][signalHandlers' # signalHandlers =>
              /\ signalHandlers = {}
              /\ signalHandlers' = BothSignals
              /\ lockFile = "self"
              /\ socketFile = "absent"
              /\ ~SuccessReported
              /\ startupSuccesses = 0]_vars
    /\ [][(socketFile' = "listening" /\ socketFile # "listening") =>
              /\ signalHandlers = BothSignals
              /\ lockFile = "self"
              /\ socketFile = "absent"
              /\ ~SuccessReported
              /\ startupSuccesses = 0]_vars
    /\ [][SuccessReported =>
              /\ startupSuccesses = 0
              /\ startupSuccesses' = 1
              /\ lockFile = "self"
              /\ signalHandlers = BothSignals
              /\ socketFile = "listening"
              /\ mainPc # "loopForever"
              /\ mainPc' = "loopForever"]_vars

\* success has just been reported, everything before it done, no event yet
C21_Witness ==
    /\ mainPc = "loopForever"
    /\ startupSuccesses = 1
    /\ nEvents = 0
    /\ lockFile = "self"
    /\ signalHandlers = BothSignals
    /\ socketFile = "listening"

\* the server is set up and success is not reported yet
C21_BeforeSuccessReached ==
    /\ mainPc = "success"
    /\ socketFile = "listening"
    /\ signalHandlers = BothSignals
    /\ startupSuccesses = 0


InProgress(name) == pc # "idle" /\ call.name = name

BlobIds == KeysOf(store, "BlobFamily") \cup KeysOf(store, "BlobMetaDataFamily")

\* C22: with the Blob and BlobMetadata key spaces written only by putBlob,
\* in every state where no putBlob, clearCaches or clearCachesAndCompactAll
\* is under way, whatever operations came before, an id has a Blob entry
\* exactly if it has a BlobMetadata entry.
C22_BlobMetadataPaired ==
    ~(\/ InProgress("putBlob")
      \/ InProgress("clearCaches")
      \/ InProgress("clearCachesAndCompactAll")) =>
        \A id \in BlobIds :
            hasKey(store, "BlobFamily", id) <=> hasKey(store, "BlobMetaDataFamily", id)

\* a store with a blob was cleared and another blob was put: the first id
\* has neither entry, the second has both
C22_Witness ==
    /\ Returned("putBlob")
    /\ nOps = 2
    /\ DOMAIN store["TreeFamily"] # {}
    /\ DOMAIN store["HgProxyHashFamily"] # {}
    /\ call.id # Id1
    /\ hasKey(store, "BlobFamily", call.id)
    /\ hasKey(store, "BlobMetaDataFamily", call.id)
    /\ ~hasKey(store, "BlobFamily", Id1)
    /\ ~hasKey(store, "BlobMetaDataFamily", Id1)

\* while clearCaches is under way the two key spaces do differ
C22_MidClearReached ==
    /\ InProgress("clearCaches")
    /\ ~hasKey(store, "BlobFamily", Id1)
    /\ hasKey(store, "BlobMetaDataFamily", Id1)

\* compactStorage under way on a store holding a blob
C22_MidCompactReached ==
    /\ InProgress("compactStorage")
    /\ ip > 0
    /\ hasKey(store, "BlobFamily", Id1)

====
